---------------------------- MODULE Spec2Model ----------------------------
(***************************************************************************)
(* Federated training epoch of torchlib/utils.py: train_federated starts   *)
(* one train_on_server process per worker and one synchronizer process,    *)
(* all sharing manager dictionaries.  Every access to a shared dictionary  *)
(* or value is one atomic step (one request to the manager process); the   *)
(* local computation between two accesses belongs to the step before it.   *)
(***************************************************************************)
EXTENDS Integers, Sequences, FiniteSets, TLC

(* ------------------------------- bounds -------------------------------- *)
MaxWorkers == 2
MaxBatches == 3
MaxSync == 2

(* ------------------------- parameter arithmetic ------------------------ *)
(* A model is one probe parameter: a tensor shape and an exact rational    *)
(* value num/den.  shape 0 is Python's None, shape -1 a raised exception.  *)

(* F applied to the value of x.  TLC evaluates x once here; a parameter    *)
(* of an operator is otherwise evaluated again at each of its uses.        *)
Apply(x, F(_)) == CHOOSE r \in {F(v) : v \in {x}} : TRUE

(* Greatest common divisor of a >= 0 and b >= 0.                            *)
GCD(a, b) ==
    IF a = 0 THEN b
    ELSE IF b = 0 THEN a
    ELSE LET lo == IF a < b THEN a ELSE b
             cd == {g \in 1..lo : a % g = 0 /\ b % g = 0}
         IN  CHOOSE g \in cd : \A h \in cd : h <= g

Norm(n, d) ==
    Apply(<<n, d>>, LAMBDA p :
        Apply(GCD(p[1], p[2]), LAMBDA g :
            IF g = 0 THEN <<0, 1>> ELSE <<p[1] \div g, p[2] \div g>>))

Mk(sh, n, d) ==
    Apply(Norm(n, d), LAMBDA q : [shape |-> sh, num |-> q[1], den |-> q[2]])

NoModel == [shape |-> 0, num |-> 0, den |-> 1]

RaisedError == [shape |-> -1, num |-> 0, den |-> 1]

IsModel(m) == m.shape > 0

InitModel == [shape |-> 1, num |-> 0, den |-> 1]

(* syft's scale_model: every parameter times the scalar wt = <<n, d>>.     *)
scale_model(m, wt) ==
    Apply(<<m, wt>>, LAMBDA p :
        IF ~IsModel(p[1]) THEN RaisedError
        ELSE Apply(<<Norm(p[1].num, p[2][2]), Norm(p[2][1], p[1].den)>>, LAMBDA ab :
                 Mk(p[1].shape, ab[1][1] * ab[2][1], ab[1][2] * ab[2][2])))

(* syft's add_model: parameter-wise sum; tensors of different shape raise. *)
add_model(dst, src) ==
    Apply(<<dst, src>>, LAMBDA p :
        IF ~IsModel(p[1]) \/ ~IsModel(p[2]) THEN RaisedError
        ELSE IF p[1].shape # p[2].shape THEN RaisedError
        ELSE Apply(GCD(p[1].den, p[2].den), LAMBDA g :
                 Mk(p[1].shape,
                    p[1].num * (p[2].den \div g) + p[2].num * (p[1].den \div g),
                    p[1].den * (p[2].den \div g))))

(* The loop of federated_avg over models.items(), in the order `order`:    *)
(* model = scaled_model for the first id, add_model(model, scaled_model)   *)
(* after it; an exception ends the loop.                                   *)
RECURSIVE WeightedLoop(_, _, _, _)
WeightedLoop(models, weights, order, model) ==
    IF order = <<>> THEN model
    ELSE Apply(scale_model(models[Head(order)], weights[Head(order)]), LAMBDA scaled_model :
           Apply(IF model = NoModel THEN scaled_model ELSE add_model(model, scaled_model),
                 LAMBDA next :
                   IF scaled_model = RaisedError \/ next = RaisedError THEN RaisedError
                   ELSE WeightedLoop(models, weights, Tail(order), next)))

RECURSIVE UnweightedLoop(_, _, _)
UnweightedLoop(models, order, model) ==
    IF order = <<>> THEN model
    ELSE Apply(add_model(model, models[Head(order)]), LAMBDA next :
           IF next = RaisedError THEN RaisedError
           ELSE UnweightedLoop(models, Tail(order), next))

(* The branch without weights: sum of all models, scaled by 1/nr_models;   *)
(* model_list[0] of an empty list raises.                                  *)
UnweightedAvg(models, order) ==
    IF order = <<>> THEN RaisedError
    ELSE Apply(UnweightedLoop(models, Tail(order), models[Head(order)]), LAMBDA s :
           IF s = RaisedError THEN RaisedError
           ELSE scale_model(s, <<1, Len(order)>>))

federated_avg_IgnoreWeights(models, weights, order) == UnweightedAvg(models, order)

federated_avg(models, weights, order) ==
    IF DOMAIN weights # {}
    THEN WeightedLoop(models, weights, order, NoModel)
    ELSE UnweightedAvg(models, order)

(* Keys of a manager dict in insertion order: worker ids ascending.        *)
RECURSIVE KeyOrder(_)
KeyOrder(S) ==
    IF S = {} THEN <<>>
    ELSE LET k == CHOOSE x \in S : \A y \in S : x <= y
         IN  <<k>> \o KeyOrder(S \ {k})

RECURSIVE SumOver(_, _)
SumOver(f, S) ==
    IF S = {} THEN 0
    ELSE LET k == CHOOSE x \in S : TRUE IN f[k] + SumOver(f, S \ {k})

WDict_Unnormalised(ids, batches, weighted) ==
    IF weighted
    THEN [id \in ids |-> <<batches[id], 1>>]
    ELSE [id \in ids |-> <<1, Cardinality(ids)>>]

(* w_dict of train_federated: batch share, or 1/N for every worker.        *)
WDict(ids, batches, weighted) ==
    IF weighted
    THEN [id \in ids |-> Norm(batches[id], SumOver(batches, ids))]
    ELSE [id \in ids |-> <<1, Cardinality(ids)>>]

(* One local optimisation step of worker w on batch i.                     *)
Grad(w, i) == w + i

TrainStep(m, w, i) == Mk(m.shape, m.num + m.den * Grad(w, i), m.den)

(* Plain local training of all batches i..n-1, with no synchronisation.    *)
RECURSIVE LocalTraining(_, _, _, _)
LocalTraining(m, w, i, n) ==
    IF i >= n THEN m ELSE LocalTraining(TrainStep(m, w, i), w, i + 1, n)

EmptyDict == [k \in {} |-> NoModel]

(* ------------------------------- state --------------------------------- *)
VARIABLES
    workers,                \* ids of train_loaders.keys()
    batches,                \* len(train_loaders[worker])
    sync_every_n_batch,     \* args.sync_every_n_batch
    weighted_averaging,     \* args.weighted_averaging
    w_dict,                 \* weights handed to the synchronizer
    result_dict,            \* id -> last published model
    waiting_for_sync_dict,  \* id -> bool, key deleted on completion
    sync_dict,              \* {} or {"model": merged model}
    sync_completed,         \* mng.Value
    stop_sync,              \* mng.Value
    progress_dict,          \* id -> <<batch, total>>
    loss_dict,              \* id -> [at: batch labels, final: bool]
    wpc, batch_idx, model,  \* train_on_server: position, loop index, local model
    cpc, avg_model, keys,   \* synchronizer: position, merge result, keys still to clear
    opc, returned,          \* train_federated: position, returned model
    round,                  \* history: resolution passes begun while a worker was still running
    mergedRound,            \* history: pass that wrote sync_dict["model"]
    subRound,               \* history: id -> pass that will first read its last sync submission
    loads,                  \* history: <<round joined, model loaded>> of every load
    suspends,               \* history: id -> number of times the worker entered its wait loop
    resolvedWaiting,        \* history: waiting_for_sync_dict at the last read of result_dict
    passesAfterStop         \* history: passes begun after stop_sync was set (capped)

config == <<workers, batches, sync_every_n_batch, weighted_averaging, w_dict>>
shared == <<result_dict, waiting_for_sync_dict, sync_dict, sync_completed, stop_sync,
            progress_dict, loss_dict>>
wlocal == <<wpc, batch_idx, model>>
clocal == <<cpc, avg_model, keys>>
olocal == <<opc, returned>>
history == <<round, mergedRound, subRound, loads, suspends, resolvedWaiting, passesAfterStop>>
vars == <<config, shared, wlocal, clocal, olocal, history>>

(* State after synchronize.start() in train_federated, every worker        *)
(* process holding the model ms[id] it was handed.                         *)
StartedWith(ids, bs, s, weighted, ms) ==
    /\ workers = ids
    /\ batches = bs
    /\ sync_every_n_batch = s
    /\ weighted_averaging = weighted
    /\ w_dict = WDict(ids, bs, weighted)
    /\ result_dict = [id \in ids |-> NoModel]
    /\ waiting_for_sync_dict = [id \in ids |-> FALSE]
    /\ sync_dict = EmptyDict
    /\ sync_completed = FALSE
    /\ stop_sync = FALSE
    /\ progress_dict = [id \in ids |-> <<0, bs[id]>>]
    /\ loss_dict = [id \in ids |-> [at |-> {}, final |-> FALSE]]
    /\ wpc = [id \in ids |-> "loop"]
    /\ batch_idx = [id \in ids |-> 0]
    /\ model = ms
    /\ cpc = "outer"
    /\ avg_model = NoModel
    /\ keys = <<>>
    /\ opc = "join"
    /\ returned = NoModel
    /\ round = 0
    /\ mergedRound = 0
    /\ subRound = [id \in ids |-> 0]
    /\ loads = {}
    /\ suspends = [id \in ids |-> 0]
    /\ resolvedWaiting = [id \in ids |-> FALSE]
    /\ passesAfterStop = 0

(* train_federated hands the same model to every worker process.           *)
Started(ids, bs, s, weighted) ==
    StartedWith(ids, bs, s, weighted, [id \in ids |-> InitModel])

Init ==
    \E n \in 1..MaxWorkers :
    \E bs \in [1..n -> 1..MaxBatches] :
    \E s \in 1..MaxSync :
    \E weighted \in BOOLEAN :
        Started(1..n, bs, s, weighted)

(* --------------------------- train_on_server --------------------------- *)
Terminated(w) == wpc[w] \in {"done", "error"}

(* Python's a % b is zero exactly when |b| divides a; b = 0 raises.        *)
Divides(b, a) == a % (IF b < 0 THEN -b ELSE b) = 0

WBatch_SyncAtZero(w) ==
    /\ w \in workers
    /\ wpc[w] = "loop"
    /\ progress_dict' = [progress_dict EXCEPT ![w] = <<batch_idx[w], batches[w]>>]
    /\ wpc' = [wpc EXCEPT ![w] =
                 IF sync_every_n_batch = 0 THEN "error"
                 ELSE IF Divides(sync_every_n_batch, batch_idx[w])
                 THEN "publish" ELSE "train"]
    /\ UNCHANGED <<config, result_dict, waiting_for_sync_dict, sync_dict, sync_completed,
                   stop_sync, loss_dict, batch_idx, model, clocal, olocal, history>>

(* progress_dict[worker.id] = (batch_idx, L); then the test of line 679,   *)
(* whose % raises ZeroDivisionError for sync_every_n_batch = 0.            *)
WBatch(w) ==
    /\ w \in workers
    /\ wpc[w] = "loop"
    /\ progress_dict' = [progress_dict EXCEPT ![w] = <<batch_idx[w], batches[w]>>]
    /\ wpc' = [wpc EXCEPT ![w] =
                 IF sync_every_n_batch = 0 THEN "error"
                 ELSE IF Divides(sync_every_n_batch, batch_idx[w]) /\ batch_idx[w] > 0
                 THEN "publish" ELSE "train"]
    /\ UNCHANGED <<config, result_dict, waiting_for_sync_dict, sync_dict, sync_completed,
                   stop_sync, loss_dict, batch_idx, model, clocal, olocal, history>>

WPublish_WaitFirst(w) ==
    /\ w \in workers
    /\ wpc[w] = "publish"
    /\ waiting_for_sync_dict' = [waiting_for_sync_dict EXCEPT ![w] = TRUE]
    /\ loss_dict' = [loss_dict EXCEPT ![w].at = @ \cup {batch_idx[w]}]
    /\ subRound' = [subRound EXCEPT ![w] = round + 1]
    /\ wpc' = [wpc EXCEPT ![w] = "clear"]
    /\ UNCHANGED <<config, result_dict, sync_dict, sync_completed, stop_sync,
                   progress_dict, batch_idx, model, clocal, olocal,
                   round, mergedRound, loads, suspends, resolvedWaiting, passesAfterStop>>

(* result_dict[worker.id] = model; loss_dict[worker.id][batch_idx] = ...:  *)
(* the loss entry is the worker's own and is read only after the join.     *)
WPublish(w) ==
    /\ w \in workers
    /\ wpc[w] = "publish"
    /\ result_dict' = [result_dict EXCEPT ![w] = model[w]]
    /\ loss_dict' = [loss_dict EXCEPT ![w].at = @ \cup {batch_idx[w]}]
    /\ subRound' = [subRound EXCEPT ![w] = round + 1]
    /\ wpc' = [wpc EXCEPT ![w] = "clear"]
    /\ UNCHANGED <<config, waiting_for_sync_dict, sync_dict, sync_completed, stop_sync,
                   progress_dict, batch_idx, model, clocal, olocal,
                   round, mergedRound, loads, suspends, resolvedWaiting, passesAfterStop>>

WClearCompleted(w) ==
    /\ w \in workers
    /\ wpc[w] = "clear"
    /\ sync_completed' = FALSE
    /\ wpc' = [wpc EXCEPT ![w] = "setwait"]
    /\ UNCHANGED <<config, result_dict, waiting_for_sync_dict, sync_dict, stop_sync,
                   progress_dict, loss_dict, batch_idx, model, clocal, olocal, history>>

WSetWaiting(w) ==
    /\ w \in workers
    /\ wpc[w] = "setwait"
    /\ waiting_for_sync_dict' =
         [k \in DOMAIN waiting_for_sync_dict \cup {w} |->
            IF k = w THEN TRUE ELSE waiting_for_sync_dict[k]]
    /\ suspends' = [suspends EXCEPT ![w] = @ + 1]
    /\ wpc' = [wpc EXCEPT ![w] = "poll"]
    /\ UNCHANGED <<config, result_dict, sync_dict, sync_completed, stop_sync,
                   progress_dict, loss_dict, batch_idx, model, clocal, olocal,
                   round, mergedRound, subRound, loads, resolvedWaiting, passesAfterStop>>

(* while not sync_completed.value: sleep -- a poll that reads False        *)
(* changes nothing.                                                        *)
WPoll(w) ==
    /\ w \in workers
    /\ wpc[w] = "poll"
    /\ sync_completed
    /\ wpc' = [wpc EXCEPT ![w] = "load"]
    /\ UNCHANGED <<config, shared, batch_idx, model, clocal, olocal, history>>

WLoad(w) ==
    /\ w \in workers
    /\ wpc[w] = "load"
    /\ IF "model" \in DOMAIN sync_dict /\ IsModel(sync_dict["model"])
          /\ sync_dict["model"].shape = model[w].shape
       THEN /\ model' = [model EXCEPT ![w] = sync_dict["model"]]
            /\ loads' = loads \cup {<<subRound[w], sync_dict["model"]>>}
            /\ wpc' = [wpc EXCEPT ![w] = "train"]
       ELSE /\ wpc' = [wpc EXCEPT ![w] = "error"]
            /\ UNCHANGED <<model, loads>>
    /\ UNCHANGED <<config, shared, batch_idx, clocal, olocal,
                   round, mergedRound, subRound, suspends, resolvedWaiting, passesAfterStop>>

WTrain(w) ==
    /\ w \in workers
    /\ wpc[w] = "train"
    /\ model' = [model EXCEPT ![w] = TrainStep(@, w, batch_idx[w])]
    /\ batch_idx' = [batch_idx EXCEPT ![w] = @ + 1]
    /\ wpc' = [wpc EXCEPT ![w] = IF batch_idx[w] + 1 < batches[w] THEN "loop" ELSE "final"]
    /\ UNCHANGED <<config, shared, clocal, olocal, history>>

WFinalPublish_Skip(w) ==
    /\ w \in workers
    /\ wpc[w] = "final"
    /\ wpc' = [wpc EXCEPT ![w] = "final_record"]
    /\ UNCHANGED <<config, shared, batch_idx, model, clocal, olocal, history>>

(* model.get(); result_dict[worker.id] = model                             *)
WFinalPublish(w) ==
    /\ w \in workers
    /\ wpc[w] = "final"
    /\ result_dict' = [result_dict EXCEPT ![w] = model[w]]
    /\ wpc' = [wpc EXCEPT ![w] = "final_record"]
    /\ UNCHANGED <<config, waiting_for_sync_dict, sync_dict, sync_completed, stop_sync,
                   progress_dict, loss_dict, batch_idx, model, clocal, olocal, history>>

(* loss_dict[worker.id]["final"] = ...; progress_dict[worker.id] = (L, L): *)
(* both entries are the worker's own and are read only after the join.     *)
WFinalRecord(w) ==
    /\ w \in workers
    /\ wpc[w] = "final_record"
    /\ loss_dict' = [loss_dict EXCEPT ![w].final = TRUE]
    /\ progress_dict' = [progress_dict EXCEPT ![w] = <<batch_idx[w], batches[w]>>]
    /\ wpc' = [wpc EXCEPT ![w] = "del"]
    /\ UNCHANGED <<config, result_dict, waiting_for_sync_dict, sync_dict, sync_completed,
                   stop_sync, batch_idx, model, clocal, olocal, history>>

WDelWaiting_SetFalse(w) ==
    /\ w \in workers
    /\ wpc[w] = "del"
    /\ waiting_for_sync_dict' = [waiting_for_sync_dict EXCEPT ![w] = FALSE]
    /\ wpc' = [wpc EXCEPT ![w] = "done"]
    /\ UNCHANGED <<config, result_dict, sync_dict, sync_completed, stop_sync,
                   progress_dict, loss_dict, batch_idx, model, clocal, olocal, history>>

WDelWaiting(w) ==
    /\ w \in workers
    /\ wpc[w] = "del"
    /\ IF w \in DOMAIN waiting_for_sync_dict
       THEN /\ waiting_for_sync_dict' =
                 [k \in DOMAIN waiting_for_sync_dict \ {w} |-> waiting_for_sync_dict[k]]
            /\ wpc' = [wpc EXCEPT ![w] = "done"]
       ELSE /\ wpc' = [wpc EXCEPT ![w] = "error"]
            /\ UNCHANGED waiting_for_sync_dict
    /\ UNCHANGED <<config, result_dict, sync_dict, sync_completed, stop_sync,
                   progress_dict, loss_dict, batch_idx, model, clocal, olocal, history>>

train_on_server(w) ==
    \/ WBatch(w) \/ WPublish(w) \/ WClearCompleted(w) \/ WSetWaiting(w)
    \/ WPoll(w) \/ WLoad(w) \/ WTrain(w)
    \/ WFinalPublish(w) \/ WFinalRecord(w) \/ WDelWaiting(w)

(* ----------------------------- synchronizer ---------------------------- *)
AllWaiting == \A k \in DOMAIN waiting_for_sync_dict : waiting_for_sync_dict[k]

COuter_IgnoreStop ==
    /\ cpc = "outer"
    /\ cpc' = "inner_all"
    /\ UNCHANGED <<config, shared, wlocal, avg_model, keys, olocal, history>>

(* while not stop.value                                                    *)
COuter ==
    /\ cpc = "outer"
    /\ cpc' = IF stop_sync THEN "done" ELSE "inner_all"
    /\ UNCHANGED <<config, shared, wlocal, avg_model, keys, olocal, history>>

CInnerAll_Any ==
    /\ cpc = "inner_all"
    /\ cpc' = IF \E k \in DOMAIN waiting_for_sync_dict : waiting_for_sync_dict[k]
              THEN "resolve" ELSE "inner_stop"
    /\ UNCHANGED <<config, shared, wlocal, avg_model, keys, olocal, history>>

(* not all(waiting_for_sync_dict.values()) ...                             *)
CInnerAll ==
    /\ cpc = "inner_all"
    /\ cpc' = IF AllWaiting THEN "resolve" ELSE "inner_stop"
    /\ UNCHANGED <<config, shared, wlocal, avg_model, keys, olocal, history>>

(* ... and not stop.value                                                  *)
CInnerStop ==
    /\ cpc = "inner_stop"
    /\ cpc' = IF stop_sync THEN "resolve" ELSE "inner_all"
    /\ UNCHANGED <<config, shared, wlocal, avg_model, keys, olocal, history>>

(* What the pass does with result_dict (lines 585-594): <<next position,   *)
(* model to store>>.                                                       *)
Averaged(results, weights) ==
    Apply(federated_avg(results, weights, KeyOrder(DOMAIN results)), LAMBDA m :
        IF m = RaisedError THEN <<"error", NoModel>> ELSE <<"write", m>>)

Merge_NoEmptyCase(results, weights) ==
    IF Cardinality(DOMAIN results) = 1
    THEN <<"write", results[CHOOSE id \in DOMAIN results : TRUE]>>
    ELSE Averaged(results, [id \in {} |-> <<1, 1>>])

Merge_FallBackOnError(results, weights) ==
    IF Cardinality(DOMAIN results) = 1
    THEN <<"write", results[CHOOSE id \in DOMAIN results : TRUE]>>
    ELSE IF Cardinality(DOMAIN results) = 0 THEN <<"keys", NoModel>>
    ELSE <<"write", Averaged(results, weights)[2]>>

Merge_OnlyWaiting(results, weights) ==
    LET ws == {id \in DOMAIN results :
                 id \in DOMAIN waiting_for_sync_dict /\ waiting_for_sync_dict[id]}
        rs == IF ws = {} THEN results ELSE [id \in ws |-> results[id]]
    IN  IF Cardinality(DOMAIN rs) = 1
        THEN <<"write", rs[CHOOSE id \in DOMAIN rs : TRUE]>>
        ELSE IF Cardinality(DOMAIN rs) = 0 THEN <<"keys", NoModel>>
        ELSE Averaged(rs, weights)

Merge(results, weights) ==
    IF Cardinality(DOMAIN results) = 1
    THEN <<"write", results[CHOOSE id \in DOMAIN results : TRUE]>>
    ELSE IF Cardinality(DOMAIN results) = 0 THEN <<"keys", NoModel>>
    ELSE Averaged(results, weights)

CResolve ==
    /\ cpc = "resolve"
    /\ \E m \in {Merge(result_dict, w_dict)} :
          cpc' = m[1] /\ avg_model' = m[2]
    /\ round' = IF \E w \in workers : ~Terminated(w) THEN round + 1 ELSE round
    /\ resolvedWaiting' = waiting_for_sync_dict
    /\ passesAfterStop' = IF stop_sync /\ passesAfterStop < 2
                          THEN passesAfterStop + 1 ELSE passesAfterStop
    /\ UNCHANGED <<config, shared, wlocal, keys, olocal,
                   mergedRound, subRound, loads, suspends>>

CWrite ==
    /\ cpc = "write"
    /\ sync_dict' = [k \in {"model"} |-> avg_model]
    /\ mergedRound' = round
    /\ avg_model' = NoModel
    /\ cpc' = "keys"
    /\ UNCHANGED <<config, result_dict, waiting_for_sync_dict, sync_completed, stop_sync,
                   progress_dict, loss_dict, wlocal, keys, olocal,
                   round, subRound, loads, suspends, resolvedWaiting, passesAfterStop>>

CKeys_SignalEarly ==
    /\ cpc = "keys"
    /\ keys' = KeyOrder(DOMAIN waiting_for_sync_dict)
    /\ sync_completed' = TRUE
    /\ cpc' = "release"
    /\ UNCHANGED <<config, result_dict, waiting_for_sync_dict, sync_dict, stop_sync,
                   progress_dict, loss_dict, wlocal, avg_model, olocal, history>>

(* for k in waiting_for_sync_dict.keys(): the list of keys is read once    *)
CKeys ==
    /\ cpc = "keys"
    /\ keys' = KeyOrder(DOMAIN waiting_for_sync_dict)
    /\ cpc' = "release"
    /\ UNCHANGED <<config, shared, wlocal, avg_model, olocal, history>>

(* waiting_for_sync_dict[k] = False, one request per key                   *)
CRelease ==
    /\ cpc = "release"
    /\ keys # <<>>
    /\ waiting_for_sync_dict' =
         [k \in DOMAIN waiting_for_sync_dict \cup {Head(keys)} |->
            IF k = Head(keys) THEN FALSE ELSE waiting_for_sync_dict[k]]
    /\ keys' = Tail(keys)
    /\ UNCHANGED <<config, result_dict, sync_dict, sync_completed, stop_sync,
                   progress_dict, loss_dict, wlocal, cpc, avg_model, olocal, history>>

CSetCompleted_ClearResults ==
    /\ cpc = "release"
    /\ keys = <<>>
    /\ result_dict' = EmptyDict
    /\ sync_completed' = TRUE
    /\ cpc' = "outer"
    /\ UNCHANGED <<config, waiting_for_sync_dict, sync_dict, stop_sync,
                   progress_dict, loss_dict, wlocal, avg_model, keys, olocal, history>>

(* result_dict.clear() stays commented out (lines 598-603)                 *)
CSetCompleted ==
    /\ cpc = "release"
    /\ keys = <<>>
    /\ sync_completed' = TRUE
    /\ cpc' = "outer"
    /\ UNCHANGED <<config, result_dict, waiting_for_sync_dict, sync_dict, stop_sync,
                   progress_dict, loss_dict, wlocal, avg_model, keys, olocal, history>>

synchronizer ==
    \/ COuter \/ CInnerAll \/ CInnerStop \/ CResolve \/ CWrite
    \/ CKeys \/ CRelease \/ CSetCompleted

(* --------------------------- train_federated --------------------------- *)
OStop_NoJoin ==
    /\ opc = "join"
    /\ stop_sync' = TRUE
    /\ opc' = "join_sync"
    /\ UNCHANGED <<config, result_dict, waiting_for_sync_dict, sync_dict, sync_completed,
                   progress_dict, loss_dict, wlocal, clocal, returned, history>>

(* for j in jobs: j.join(); stop_sync.value = True                         *)
OStop ==
    /\ opc = "join"
    /\ \A w \in workers : Terminated(w)
    /\ stop_sync' = TRUE
    /\ opc' = "join_sync"
    /\ UNCHANGED <<config, result_dict, waiting_for_sync_dict, sync_dict, sync_completed,
                   progress_dict, loss_dict, wlocal, clocal, returned, history>>

(* synchronize.join(); model = sync_dict["model"]                          *)
OReturn ==
    /\ opc = "join_sync"
    /\ cpc \in {"done", "error"}
    /\ IF "model" \in DOMAIN sync_dict
       THEN returned' = sync_dict["model"] /\ opc' = "done"
       ELSE returned' = returned /\ opc' = "error"
    /\ UNCHANGED <<config, shared, wlocal, clocal, history>>

train_federated == OStop \/ OReturn

Next ==
    \/ \E w \in 1..MaxWorkers : train_on_server(w)
    \/ synchronizer
    \/ train_federated

Spec == Init /\ [][Next]_vars

(* Every process keeps running: the operating system schedules each of     *)
(* them, and a sleep() in a wait loop returns.                             *)
Fairness ==
    /\ \A w \in 1..MaxWorkers : WF_vars(train_on_server(w))
    /\ WF_vars(synchronizer)
    /\ WF_vars(train_federated)

FairSpec == Init /\ [][Next]_vars /\ Fairness

(* The epoch of section 8: 2 workers, sync_every_n_batch = 2, worker 1     *)
(* with 4 batches, worker 2 with 2 batches, uniform weights.               *)
ScenarioBatches == <<4, 2>>

ScenarioInit == Started(1..2, ScenarioBatches, 2, FALSE)

ScenarioSpec ==
    /\ ScenarioInit
    /\ [][Next]_vars
    /\ \A w \in 1..2 : WF_vars(train_on_server(w))
    /\ WF_vars(synchronizer)
    /\ WF_vars(train_federated)

(* The synchronizer alone, entered with any contents of the dictionaries   *)
(* it is handed: models of any shape and value, workers finished (key      *)
(* deleted), waiting or not waiting, a merged model of an earlier pass or  *)
(* none, stop requested or not.  The workers do not move.                  *)
AggShapes == {1, 2}

AggValues == {0, 1, 2}

AggBatchCounts == {100, 300}

AggModels == {[shape |-> sh, num |-> v, den |-> 1] : sh \in AggShapes, v \in AggValues}

PriorModel == [shape |-> 1, num |-> 7, den |-> 1]

AggInit ==
    \E n \in 0..MaxWorkers :
    \E bs \in [1..n -> AggBatchCounts] :
    \E weighted \in BOOLEAN :
    \E rs \in [1..n -> AggModels] :
    \E gone \in SUBSET (1..n) :
    \E flags \in [(1..n) \ gone -> BOOLEAN] :
    \E prior \in {EmptyDict, [k \in {"model"} |-> PriorModel]} :
    \E stop \in BOOLEAN :
        /\ workers = 1..n
        /\ batches = bs
        /\ sync_every_n_batch = 1
        /\ weighted_averaging = weighted
        /\ w_dict = WDict(1..n, bs, weighted)
        /\ result_dict = rs
        /\ waiting_for_sync_dict = flags
        /\ sync_dict = prior
        /\ sync_completed = FALSE
        /\ stop_sync = stop
        /\ progress_dict = [id \in 1..n |-> <<IF id \in gone THEN bs[id] ELSE 1, bs[id]>>]
        /\ loss_dict = [id \in 1..n |-> [at |-> {}, final |-> id \in gone]]
        /\ wpc = [id \in 1..n |->
                    IF id \in gone THEN "done" ELSE IF flags[id] THEN "poll" ELSE "train"]
        /\ batch_idx = [id \in 1..n |-> IF id \in gone THEN bs[id] ELSE 1]
        /\ model = rs
        /\ cpc = "outer"
        /\ avg_model = NoModel
        /\ keys = <<>>
        /\ opc = IF stop THEN "join_sync" ELSE "join"
        /\ returned = NoModel
        /\ round = 0
        /\ mergedRound = 0
        /\ subRound = [id \in 1..n |-> IF id \in gone THEN 0 ELSE 1]
        /\ loads = {}
        /\ suspends = [id \in 1..n |-> IF id \in gone \/ ~flags[id] THEN 0 ELSE 1]
        /\ resolvedWaiting = flags
        /\ passesAfterStop = 0

AggSpec == AggInit /\ [][synchronizer]_vars

(* An epoch whose worker processes hold models of any of the shapes, so    *)
(* that federated_avg can raise in the synchronizer while workers run.     *)
ShapedModels(ids) == [ids -> {[shape |-> sh, num |-> 0, den |-> 1] : sh \in AggShapes}]

MixedInit ==
    \E n \in 1..MaxWorkers :
    \E bs \in [1..n -> 1..MaxBatches] :
    \E s \in 1..MaxSync :
    \E weighted \in BOOLEAN :
    \E ms \in ShapedModels(1..n) :
        StartedWith(1..n, bs, s, weighted, ms)

MixedSpec == MixedInit /\ [][Next]_vars /\ Fairness

(* An epoch with any integer the configuration file can hold as            *)
(* sync_every_n_batch: getint accepts zero and negative values.            *)
SyncValues == (-MaxSync)..MaxSync

ConfigInit ==
    \E n \in 1..MaxWorkers :
    \E bs \in [1..n -> 1..MaxBatches] :
    \E s \in SyncValues :
    \E weighted \in BOOLEAN :
        Started(1..n, bs, s, weighted)

ConfigSpec == ConfigInit /\ [][Next]_vars

(* ------------------------------ properties ----------------------------- *)
Merged == sync_dict["model"]

HasMerged == "model" \in DOMAIN sync_dict

WaitingTrue(d) == {k \in DOMAIN d : d[k]}

(* C1: the barrier never deadlocks -- no reachable state has a worker in   *)
(* its wait loop on sync_completed, which nobody will set any more, while  *)
(* the synchronizer is in its own wait loop and every other worker is      *)
(* waiting or has finished.                                                *)
BarrierStuck ==
    /\ \E w \in workers : wpc[w] = "poll"
    /\ \A w \in workers : wpc[w] \in {"poll", "done"}
    /\ ~sync_completed
    /\ ~stop_sync
    /\ opc = "join"
    /\ cpc \in {"inner_all", "inner_stop"}
    /\ ~AllWaiting

C1_NoBarrierDeadlock == ~BarrierStuck

(* C2: once stop_sync is set the synchronizer terminates, and it begins at *)
(* most one resolution pass after stop_sync was set.                       *)
C2_StopTerminates ==
    /\ stop_sync ~> (cpc \in {"done", "error"})
    /\ [](passesAfterStop <= 1)

C2_Witness == stop_sync /\ cpc = "done" /\ passesAfterStop = 1

(* C3: a released worker that is about to read sync_dict["model"] has its  *)
(* waiting flag cleared, and the model stored is the result of the pass    *)
(* that first read the worker's latest submission.                         *)
C3_ReadsOwnRound ==
    \A w \in workers :
        wpc[w] = "load" =>
            /\ w \in DOMAIN waiting_for_sync_dict
            /\ ~waiting_for_sync_dict[w]
            /\ HasMerged
            /\ mergedRound = subRound[w]

C3_Witness ==
    \E w \in workers : wpc[w] = "load" /\ subRound[w] = 2 /\ Cardinality(workers) = 2

(* C4: workers released from the same round load the same model.           *)
C4_SameRoundSameModel ==
    \A p \in loads : \A q \in loads : p[1] = q[1] => p[2] = q[2]

C4_Witness ==
    \E w \in workers : \E v \in workers :
        /\ w # v
        /\ wpc[w] = "train" /\ wpc[v] = "train"
        /\ subRound[w] = 1 /\ subRound[v] = 1
        /\ model[w] = model[v]
        /\ <<1, model[w]>> \in loads

(* C5: with one worker, the model train_federated returns is the model of  *)
(* plain local training of that worker.                                    *)
C5_SingleWorkerEqualsLocal ==
    (Cardinality(workers) = 1 /\ opc \in {"done", "error"}) =>
        /\ opc = "done"
        /\ returned = LocalTraining(InitModel, 1, 0, batches[1])

(* C6: in the scenario epoch everything terminates, worker 1 suspends      *)
(* exactly once, at batch index 2, worker 2 never suspends and is gone     *)
(* from waiting_for_sync_dict when worker 1's round is resolved, and the   *)
(* epoch ends with a merged model and without an error.                    *)
ScenarioEnd ==
    /\ \A w \in workers : wpc[w] = "done"
    /\ cpc = "done"
    /\ opc = "done"
    /\ HasMerged /\ IsModel(Merged) /\ returned = Merged
    /\ suspends = <<1, 0>>

ScenarioSafe ==
    /\ \A w \in workers : wpc[w] # "error"
    /\ cpc # "error" /\ opc # "error"
    /\ suspends[2] = 0 /\ suspends[1] <= 1
    /\ wpc[1] = "poll" => batch_idx[1] = 2
    /\ (cpc = "write" /\ 1 \in WaitingTrue(resolvedWaiting)) =>
           DOMAIN resolvedWaiting = {1}

C6_Scenario == <>ScenarioEnd /\ []ScenarioSafe

C6_Witness == ScenarioEnd

(* One exact weighted sum, computed without the averaging code: the pair   *)
(* <<n, d>> with n/d = sum over ids of weights[id] * results[id].          *)
RECURSIVE ExactSum(_, _, _)
ExactSum(results, weights, ids) ==
    IF ids = {} THEN <<0, 1>>
    ELSE LET id == CHOOSE x \in ids : TRUE
             rest == ExactSum(results, weights, ids \ {id})
             tn == weights[id][1] * results[id].num
             td == weights[id][2] * results[id].den
         IN  Norm(rest[1] * td + tn * rest[2], rest[2] * td)

IsExactSum(m, results, weights) ==
    <<m.num, m.den>> = ExactSum(results, weights, DOMAIN results)

(* C8 as stated: a pass with exactly one worker waiting, the others having *)
(* finished, stores that worker's submitted model unchanged.               *)
C8_OneWaitingIdentity ==
    (/\ cpc = "keys"
     /\ Cardinality(workers) >= 2
     /\ Cardinality(DOMAIN resolvedWaiting) = 1
     /\ Cardinality(WaitingTrue(resolvedWaiting)) = 1) =>
        \A id \in WaitingTrue(resolvedWaiting) : Merged = result_dict[id]

(* C8 amended: a pass over a result_dict of one entry stores that model    *)
(* unchanged; with two or more workers the pass stores the weighted sum of *)
(* the last published models of all workers, finished ones included.       *)
C8_IdentityOnlyForOneEntry ==
    cpc = "keys" =>
        IF Cardinality(DOMAIN result_dict) = 1
        THEN \A id \in DOMAIN result_dict : Merged = result_dict[id]
        ELSE IsExactSum(Merged, result_dict, w_dict)

C8_Witness ==
    /\ cpc = "keys"
    /\ Cardinality(workers) = 2
    /\ DOMAIN resolvedWaiting = {1}
    /\ resolvedWaiting[1]
    /\ Merged # result_dict[1]

(* All orders in which the keys of a dictionary can be iterated.           *)
Orders(S) ==
    {o \in [1..Cardinality(S) -> S] : \A i, j \in 1..Cardinality(S) : o[i] = o[j] => i = j}

BatchShare(ids) == [id \in ids |-> <<batches[id], SumOver(batches, ids)>>]

(* C7: with weighted averaging the weight of a worker is its batch count   *)
(* over the batch count of all workers, the merged parameter is the sum of *)
(* weight times submitted parameter over the merged workers (batch counts  *)
(* 300 and 100 with parameters 2 and 0 give 3/2), and the order in which   *)
(* the models are iterated does not change it.                             *)
C7_WeightedMerge ==
    (cpc = "write" /\ weighted_averaging /\ Cardinality(DOMAIN result_dict) >= 2) =>
        /\ \A id \in workers :
              w_dict[id][1] * SumOver(batches, workers) = w_dict[id][2] * batches[id]
        /\ IsModel(avg_model)
        /\ IsExactSum(avg_model, result_dict, BatchShare(workers))
        /\ \A o \in Orders(DOMAIN result_dict) :
              federated_avg(result_dict, w_dict, o) = avg_model
        /\ (/\ batches = <<300, 100>>
            /\ result_dict[1].num = 2 /\ result_dict[2].num = 0) =>
               (avg_model.num = 3 /\ avg_model.den = 2)

C7_Witness ==
    /\ cpc = "write" /\ weighted_averaging
    /\ batches = <<300, 100>>
    /\ result_dict[1].num = 2 /\ result_dict[2].num = 0
    /\ avg_model = [shape |-> result_dict[1].shape, num |-> 3, den |-> 2]

(* C9: a pass over an empty result_dict merges nothing, leaves             *)
(* sync_dict["model"] as it was, raises nothing, and goes on to release    *)
(* the barrier: every flag false, sync_completed true.                     *)
C9_EmptyPassIsNoOp ==
    [][ (DOMAIN result_dict = {}) =>
           /\ sync_dict' = sync_dict
           /\ cpc' # "error"
           /\ cpc = "resolve" => cpc' = "keys"
           /\ cpc = "keys" => cpc' = "release"
           /\ cpc = "release" =>
                 /\ sync_completed'
                 /\ \A k \in DOMAIN waiting_for_sync_dict' : ~waiting_for_sync_dict'[k] ]_vars

C9_Witness ==
    /\ DOMAIN result_dict = {}
    /\ cpc = "outer" /\ sync_completed
    /\ HasMerged /\ Merged = PriorModel

(* C10: a pass over models of different shapes raises and leaves           *)
(* sync_dict["model"] as it was; sync_dict["model"] is only assigned the   *)
(* result of a merge that raised nothing.                                  *)
MismatchedShapes(results) ==
    \E a \in DOMAIN results : \E b \in DOMAIN results : results[a].shape # results[b].shape

C10_FailedMergeKeepsModel ==
    [][ /\ (cpc = "resolve" /\ MismatchedShapes(result_dict)) =>
             (cpc' = "error" /\ sync_dict' = sync_dict)
        /\ cpc = "error" => sync_dict' = sync_dict
        /\ sync_dict' # sync_dict =>
             (cpc = "write" /\ IsModel(avg_model)
              /\ sync_dict' = [k \in {"model"} |-> avg_model]) ]_vars

C10_Witness ==
    /\ cpc = "error"
    /\ MismatchedShapes(result_dict)
    /\ HasMerged /\ Merged = PriorModel

C12_NonPositiveIntervalRejected ==
    sync_every_n_batch <= 0 =>
        /\ \A w \in workers : batch_idx[w] = 0 /\ wpc[w] \in {"loop", "error"}
        /\ cpc = "outer"

(* The weights of the ids in S, renormalised to sum to 1; every weight of  *)
(* w_dict is a fraction of the batch total or of the number of workers.    *)
Renormalised(weights, S) ==
    LET den == SumOver(batches, workers) * Cardinality(workers)
        tot == SumOver([id \in S |-> weights[id][1] * (den \div weights[id][2])], S)
    IN  [id \in S |-> Norm(weights[id][1] * (den \div weights[id][2]), tot)]

(* C13 as stated: a pass merges the models of the workers whose waiting    *)
(* flag is true when the pass reads result_dict, and only those, with      *)
(* their weights renormalised.                                             *)
C13_MergesOnlyWaiting ==
    (cpc = "write" /\ WaitingTrue(resolvedWaiting) # {}) =>
        LET W == WaitingTrue(resolvedWaiting)
        IN  <<avg_model.num, avg_model.den>> =
                ExactSum(result_dict, Renormalised(w_dict, W), W)

(* C13 amended: a pass merges one model per entry of result_dict, that is  *)
(* one per worker of the epoch, finished workers included: the stored      *)
(* model is the weighted sum over all of them and over no smaller set,     *)
(* and the workers waiting at that time are a subset of the ids merged.    *)
C13_MergesEveryEntry ==
    cpc = "write" =>
        /\ DOMAIN result_dict = workers
        /\ WaitingTrue(resolvedWaiting) \subseteq workers
        /\ IsExactSum(avg_model, result_dict, w_dict)
        /\ \A S \in SUBSET workers :
              S # workers => <<avg_model.num, avg_model.den>> # ExactSum(result_dict, w_dict, S)

C13_Witness ==
    /\ cpc = "write"
    /\ Cardinality(workers) = 2
    /\ DOMAIN resolvedWaiting = {1}
    /\ resolvedWaiting[1]
    /\ ~stop_sync

(* C14: no step of the synchronizer changes result_dict, and in every pass *)
(* resolved after a worker has finished, result_dict still holds that      *)
(* worker's final model and the merge counts it: the stored model is the   *)
(* weighted sum over all workers and differs from the sum without it.      *)
C14_ResultsKept ==
    /\ [][clocal' # clocal => result_dict' = result_dict]_vars
    /\ [](cpc = "write" =>
            \A w \in workers : wpc[w] = "done" =>
                /\ w \in DOMAIN result_dict
                /\ result_dict[w] = model[w]
                /\ batch_idx[w] = batches[w]
                /\ IsExactSum(avg_model, result_dict, w_dict)
                /\ (Cardinality(workers) >= 2 =>
                      <<avg_model.num, avg_model.den>> #
                          ExactSum(result_dict, w_dict, workers \ {w})))

C14_Witness ==
    /\ cpc = "write"
    /\ wpc[1] = "poll"
    /\ 2 \in workers /\ wpc[2] = "done"
    /\ round >= 2

(* C15: the synchronizer does not terminate before it has begun a          *)
(* resolution pass in a state where stop_sync was already set.             *)
C15_FinalPassAfterStop == cpc = "done" => passesAfterStop >= 1


(* C16: the keys of waiting_for_sync_dict are exactly the workers that     *)
(* have not removed their id on completion; a key that is gone never comes *)
(* back, and every key the release loop is about to write is still there,  *)
(* so that the write re-inserts nothing.                                   *)
C16_WaitingKeysAreLiveWorkers ==
    /\ [](DOMAIN waiting_for_sync_dict = {w \in workers : wpc[w] # "done"})
    /\ [](\A i \in 1..Len(keys) : keys[i] \in DOMAIN waiting_for_sync_dict)
    /\ [][DOMAIN waiting_for_sync_dict' \subseteq DOMAIN waiting_for_sync_dict]_vars

C16_Witness ==
    /\ cpc = "release" /\ keys = <<>>
    /\ \E w \in workers : wpc[w] = "done"
    /\ \E v \in DOMAIN waiting_for_sync_dict :
          wpc[v] = "poll" /\ ~waiting_for_sync_dict[v] /\ ~sync_completed


UnitModels(ids) == [id \in ids |-> [shape |-> 1, num |-> 1, den |-> 1]]

C18_WeightsSumToOne ==
    cpc = "write" =>
        /\ ExactSum(UnitModels(DOMAIN result_dict), w_dict, DOMAIN result_dict) = <<1, 1>>
        /\ \A id \in DOMAIN result_dict :
              (\A other \in DOMAIN result_dict : result_dict[other] = result_dict[id]) =>
                  avg_model = result_dict[id]

C18_Witness ==
    /\ cpc = "write"
    /\ weighted_averaging
    /\ batches = <<100, 300>>
    /\ wpc = <<"poll", "done">>
    /\ result_dict[1] = result_dict[2]
    /\ result_dict[1].num = 2
    /\ avg_model = result_dict[1]


(* C19: a worker with L batches publishes and waits exactly at the batch   *)
(* indices i with 0 < i < L and i mod sync_every_n_batch = 0: it is at a   *)
(* synchronization point only at such an index, it has waited once for     *)
(* each such index it has passed, and when its loop is over it has waited  *)
(* floor((L-1)/sync_every_n_batch) times.                                  *)
SyncPoints(w) == {i \in 1..(batches[w] - 1) : i % sync_every_n_batch = 0}

C19_SyncPointIndices ==
    \A w \in workers :
        /\ loss_dict[w].at \subseteq SyncPoints(w)
        /\ wpc[w] \in {"publish", "clear", "setwait", "poll", "load"} =>
               batch_idx[w] \in SyncPoints(w)
        /\ suspends[w] =
               Cardinality({i \in SyncPoints(w) :
                              \/ i < batch_idx[w]
                              \/ i = batch_idx[w] /\ wpc[w] \in {"poll", "load", "train"}})
        /\ wpc[w] \in {"final", "final_record", "del", "done"} =>
               /\ batch_idx[w] = batches[w]
               /\ suspends[w] = (batches[w] - 1) \div sync_every_n_batch
               /\ loss_dict[w].at = SyncPoints(w)

C19_Witness ==
    \E w \in workers :
        /\ wpc[w] = "done"
        /\ batches[w] = 3 /\ sync_every_n_batch = 1
        /\ suspends[w] = 2
        /\ loss_dict[w].at = {1, 2}


(* C20: at a synchronization point the worker publishes its model, then    *)
(* clears sync_completed, then sets its waiting flag.  So the flag is only *)
(* set by a worker that has published the model it holds, and while the    *)
(* flag is true the worker is in its wait loop, result_dict holds the      *)
(* model the worker holds, and the worker takes no training step.          *)
IsWaiting(w) == w \in DOMAIN waiting_for_sync_dict /\ waiting_for_sync_dict[w]

C20_PublishClearWait ==
    /\ [](\A w \in workers :
            /\ wpc[w] \in {"clear", "setwait"} =>
                   (result_dict[w] = model[w] /\ ~IsWaiting(w))
            /\ wpc[w] = "setwait" => ~sync_completed
            /\ IsWaiting(w) =>
                   (wpc[w] = "poll" /\ result_dict[w] = model[w] /\ ~sync_completed))
    /\ [][\A w \in workers :
            /\ (~IsWaiting(w) /\ IsWaiting(w)') => wpc[w] = "setwait"
            /\ IsWaiting(w) => (model'[w] = model[w] /\ batch_idx'[w] = batch_idx[w])]_vars

C20_Witness ==
    \E w \in workers :
        /\ IsWaiting(w)
        /\ wpc[w] = "poll"
        /\ batch_idx[w] = 2
        /\ result_dict[w] = model[w]
        /\ model[w] # InitModel


(* C21: a worker writes its final model, its "final" loss and its final    *)
(* progress before it deletes its key: a worker about to delete its key,   *)
(* and every worker whose key is gone, has trained all its batches, and    *)
(* result_dict holds the model it ended with, loss_dict its "final" entry  *)
(* and progress_dict the pair (L, L).                                      *)
FinalRecorded(w) ==
    /\ batch_idx[w] = batches[w]
    /\ result_dict[w] = model[w]
    /\ IsModel(result_dict[w])
    /\ loss_dict[w].final
    /\ progress_dict[w] = <<batches[w], batches[w]>>

C21_FinalBeforeRemoval ==
    \A w \in workers :
        /\ wpc[w] = "del" => FinalRecorded(w)
        /\ w \notin DOMAIN waiting_for_sync_dict => FinalRecorded(w)
        /\ wpc[w] \in {"final_record", "del"} =>
               (w \in DOMAIN waiting_for_sync_dict /\ result_dict[w] = model[w])

C21_Witness ==
    \E w \in workers : \E v \in workers :
        /\ w \notin DOMAIN waiting_for_sync_dict
        /\ FinalRecorded(w)
        /\ loss_dict[w].at # {}
        /\ wpc[v] = "train"


(* C22: stop_sync is set once, by train_federated, in a state where every  *)
(* worker has finished, and it stays set; it is never true while a worker  *)
(* trains or waits; and train_federated reads sync_dict only after the     *)
(* synchronizer has terminated.                                            *)
C22_StopAfterJoinReadAfterSync ==
    /\ [](stop_sync => \A w \in workers : wpc[w] = "done")
    /\ [](opc \in {"done", "error"} => (stop_sync /\ cpc \in {"done", "error"}))
    /\ [][/\ stop_sync => stop_sync'
          /\ (~stop_sync /\ stop_sync') =>
                 (opc = "join" /\ opc' = "join_sync" /\ \A w \in workers : wpc[w] = "done")
          /\ opc # "join" => stop_sync' = stop_sync
          /\ returned' # returned => (opc = "join_sync" /\ cpc \in {"done", "error"})]_vars

C22_Witness ==
    /\ opc = "done"
    /\ stop_sync
    /\ cpc = "done"
    /\ Cardinality(workers) = 2
    /\ HasMerged /\ returned = Merged /\ IsModel(returned)


(* C23: when train_federated has read sync_dict at the end of the epoch,   *)
(* the read succeeded and the model it got is the aggregation of the final *)
(* models of all workers: their weighted sum (with one worker, that        *)
(* worker's final model).                                                  *)
C23_ReturnsMergeOfFinalModels ==
    opc \in {"done", "error"} =>
        /\ opc = "done"
        /\ IsModel(returned)
        /\ \A w \in workers : result_dict[w] = model[w] /\ batch_idx[w] = batches[w]
        /\ IsExactSum(returned, model, w_dict)


(* C24: whenever the synchronizer begins a resolution pass, triggered by   *)
(* the waiting flags or by stop_sync, every entry of result_dict is a      *)
(* model its worker has published: none is the None placeholder written by *)
(* train_federated, and each worker has either written a synchronization   *)
(* submission or its final model.                                          *)
HasPublished(w) ==
    \/ wpc[w] \in {"final_record", "del", "done"}
    \/ loss_dict[w].at # {}

C24_NoPlaceholderMerged ==
    cpc = "resolve" =>
        /\ DOMAIN result_dict = workers
        /\ \A w \in workers :
              /\ result_dict[w] # NoModel
              /\ IsModel(result_dict[w])
              /\ HasPublished(w)

C24_Witness ==
    /\ cpc = "resolve"
    /\ ~stop_sync
    /\ round = 0
    /\ Cardinality(workers) = 2
    /\ \A w \in workers : IsWaiting(w) /\ result_dict[w] = model[w]

=============================================================================
